---- MODULE Spec2Model ----
(***************************************************************************)
(* Model of the zond crate: the operation log of lib.rs (ZondCollection),  *)
(* the flush policies of policy.rs and the instrumented vector of zvec.rs  *)
(* (ZVec).  A consumer call is one element of `handled` (ZondHandler) or   *)
(* of `collected` (ZondCollector).                                         *)
(***************************************************************************)
EXTENDS Integers, Sequences, FiniteSets

VARIABLES
    ID_GENERATOR,       \* lib.rs: static ID_GENERATOR
    zvec_ID_GENERATOR,  \* zvec.rs: static ID_GENERATOR
    now,                \* the monotonic clock read by Instant::now()
    heap,               \* the state of every Policy that was ever created
    zonds,              \* the configurations (consumer, policy) the caller built
    collections,        \* every ZondCollection that was ever created
    zvecs,              \* every ZVec that was ever created
    handled,            \* the calls made to ZondHandler::handle, in order
    collected           \* the calls made to ZondCollector::zond_collect, in order

vars == <<ID_GENERATOR, zvec_ID_GENERATOR, now, heap, zonds, collections, zvecs,
          handled, collected>>

----------------------------------------------------------------------------
(* Bounds of the model *)

MaxTime == 2
MaxThreshold == 2
MaxDuration == 1
MaxCalls == 4
\* The largest capacity a vector can be given (isize::MAX bytes in Vec).
MaxCapacity == 4

Values == {1, 2}

\* A NonZeroUsize::new that takes every number.
NonZeroUsize_new_unchecked(n) == [some |-> TRUE, get |-> n]

\* NonZeroUsize::new, the only safe way to the argument of
\* Policy::on_count_operations: None for 0, Some(n) otherwise.
NonZeroUsize_new(n) ==
    IF n = 0 THEN [some |-> FALSE, get |-> 0] ELSE [some |-> TRUE, get |-> n]

\* The thresholds a caller who asks for 0..MaxThreshold comes to hold.
Thresholds ==
    {NonZeroUsize_new(n).get : n \in {m \in 0..MaxThreshold : NonZeroUsize_new(m).some}}

Durations == 0..MaxDuration
\* The `additional` arguments of try_reserve: a small one and one that
\* overflows the capacity of any vector that is not empty.
Additionals == {1, MaxCapacity}

\* How far the clock may advance between the two readings of one call.
Skews == {0, 1}

----------------------------------------------------------------------------
(* Events *)

\* An operation type of the log: a method name and its value argument.
OpType(op, value) == [op |-> op, value |-> value]

\* The operation types a crate-internal user of ZondCollection records.
OperationTypes == {OpType("Push", v) : v \in Values} \cup {OpType("Len", 0)}

\* Operation::new: the operation type stamped with the clock reading t.
Operation(operation_type, t) == [instant |-> t, operation_type |-> operation_type]

\* Operation::new of zvec.rs.
ZVecOperationNew(operation, t) == [instant |-> t, operation_type |-> operation]

----------------------------------------------------------------------------
(* Policies (policy.rs) *)

PolicyInner(variant, max_operations, current_operations, duration, last_collect) ==
    [variant |-> variant,
     max_operations |-> max_operations, current_operations |-> current_operations,
     duration |-> duration, last_collect |-> last_collect]

on_drop_only == PolicyInner("OnDropOnly", 0, 0, 0, 0)

on_count_operations(max_operations) ==
    PolicyInner("OnCountOperations", max_operations, 0, 0, 0)

less_often(duration, t) == PolicyInner("LessOften", 0, 0, duration, t)

\* A clone that copies the state as a derived Clone would.
clone_copies_state(self, t) == self

\* impl Clone for PolicyInner; t is the reading of Instant::now().
clone(self, t) ==
    CASE self.variant = "OnDropOnly" -> on_drop_only
      [] self.variant = "OnCountOperations" ->
            PolicyInner("OnCountOperations", self.max_operations, 0, 0, 0)
      [] self.variant = "LessOften" ->
            PolicyInner("LessOften", 0, 0, self.duration, t)

\* fetch_add as a plain load: nothing is stored.
fetch_add_load_only(counter, val) == [previous |-> counter, stored |-> counter]

\* A configuration: the shared consumer and the place of the policy's state.
Zond(zond_handler, policy) ==
    [zond_handler |-> zond_handler, policy |-> policy, held |-> TRUE]

\* A clone that shares the state of the policy it was cloned from.
zond_clone_shared(h, zond, t) ==
    [heap |-> h, zond |-> Zond(zond.zond_handler, zond.policy)]

\* #[derive(Clone)] of Zond and Policy: the consumer is shared (Arc), the
\* policy is cloned into a state of its own.
zond_clone(h, zond, t) ==
    [heap |-> Append(h, clone(h[zond.policy], t)),
     zond |-> Zond(zond.zond_handler, Len(h) + 1)]

\* fetch_add that returns the value it stored.
fetch_add_returns_stored(counter, val) ==
    [previous |-> counter + val, stored |-> counter + val]

\* AtomicUsize::fetch_add: the previous value is returned, the sum is stored.
fetch_add(counter, val) == [previous |-> counter, stored |-> counter + val]

\* Instant::duration_since: saturates at zero.
duration_since(later, earlier) == IF later >= earlier THEN later - earlier ELSE 0

----------------------------------------------------------------------------
(* The operation log of lib.rs.  An operator takes and returns `self`, the  *)
(* view of one ZondCollection during a call: its id, its buffer, the state  *)
(* of its policy and `out`, the consumer calls made so far by the call.     *)
(* `recorded` (every event pushed so far), `in_drop` (the call is the       *)
(* destructor) and `left` (the buffer when the destructor began) are        *)
(* history only.                                                            *)

\* The view of collection c with policy state p at the start of a call.
View(c, p, in_drop) ==
    [id |-> c.id, operations |-> c.operations, policy |-> p, out |-> <<>>,
     recorded |-> c.recorded, in_drop |-> in_drop,
     left |-> IF in_drop THEN c.operations ELSE <<>>]

\* A call that carries the id of the first log, whichever log makes it.
Call_first_id(self, caller) ==
    [id |-> 0, operations |-> self.operations, caller |-> caller,
     in_drop |-> self.in_drop, seq |-> Len(self.recorded)]

\* One call of ZondHandler::handle as the consumer sees it (id, operations),
\* with where it came from (caller, in_drop) and how many events the
\* instance had recorded by then (seq).
Call(self, caller) ==
    [id |-> self.id, operations |-> self.operations, caller |-> caller,
     in_drop |-> self.in_drop, seq |-> Len(self.recorded)]

\* handle that hands the buffer over without emptying it.
handle_keeps_buffer(self, caller) ==
    [self EXCEPT !.out = Append(@, Call(self, caller))]

\* handle that does not call the handler when there is nothing to hand over.
handle_skips_empty(self, caller) ==
    IF self.operations = <<>> THEN self
    ELSE [self EXCEPT !.operations = <<>>, !.out = Append(@, Call(self, caller))]

\* ZondCollection::handle: swap the buffer for an empty one, call the handler.
handle(self, caller) ==
    [self EXCEPT !.operations = <<>>, !.out = Append(@, Call(self, caller))]

\* try_handle comparing the counter with max_operations instead of
\* max_operations - 1.
try_handle_off_by_one(self, t) ==
    CASE self.policy.variant = "OnCountOperations" ->
            IF self.policy.max_operations = self.policy.current_operations
            THEN handle([self EXCEPT !.policy.current_operations = 0], "try_handle")
            ELSE [self EXCEPT !.policy.current_operations = @ + 1]
      [] self.policy.variant = "LessOften" ->
            IF duration_since(t, self.policy.last_collect) > self.policy.duration
            THEN handle([self EXCEPT !.policy.last_collect = t], "try_handle")
            ELSE self
      [] self.policy.variant = "OnDropOnly" -> self

\* try_handle flushing as soon as the elapsed time reaches the duration.
try_handle_non_strict(self, t) ==
    CASE self.policy.variant = "OnCountOperations" ->
            IF self.policy.max_operations - 1 = self.policy.current_operations
            THEN handle([self EXCEPT !.policy.current_operations = 0], "try_handle")
            ELSE [self EXCEPT !.policy.current_operations = @ + 1]
      [] self.policy.variant = "LessOften" ->
            IF duration_since(t, self.policy.last_collect) >= self.policy.duration
            THEN handle([self EXCEPT !.policy.last_collect = t], "try_handle")
            ELSE self
      [] self.policy.variant = "OnDropOnly" -> self

\* try_handle that flushes without resetting the counter.
try_handle_keeps_counter(self, t) ==
    CASE self.policy.variant = "OnCountOperations" ->
            IF self.policy.max_operations - 1 = self.policy.current_operations
            THEN handle(self, "try_handle")
            ELSE [self EXCEPT !.policy.current_operations = @ + 1]
      [] self.policy.variant = "LessOften" ->
            IF duration_since(t, self.policy.last_collect) > self.policy.duration
            THEN handle([self EXCEPT !.policy.last_collect = t], "try_handle")
            ELSE self
      [] self.policy.variant = "OnDropOnly" -> self

\* try_handle that flushes on every second event, whatever the threshold.
try_handle_every_second(self, t) ==
    CASE self.policy.variant = "OnCountOperations" ->
            IF 1 = self.policy.current_operations
            THEN handle([self EXCEPT !.policy.current_operations = 0], "try_handle")
            ELSE [self EXCEPT !.policy.current_operations = @ + 1]
      [] self.policy.variant = "LessOften" ->
            IF duration_since(t, self.policy.last_collect) > self.policy.duration
            THEN handle([self EXCEPT !.policy.last_collect = t], "try_handle")
            ELSE self
      [] self.policy.variant = "OnDropOnly" -> self

\* ZondCollection::try_handle; t is its reading of Instant::now().
try_handle(self, t) ==
    CASE self.policy.variant = "OnCountOperations" ->
            IF self.policy.max_operations - 1 = self.policy.current_operations
            THEN handle([self EXCEPT !.policy.current_operations = 0], "try_handle")
            ELSE [self EXCEPT !.policy.current_operations = @ + 1]
      [] self.policy.variant = "LessOften" ->
            IF duration_since(t, self.policy.last_collect) > self.policy.duration
            THEN handle([self EXCEPT !.policy.last_collect = t], "try_handle")
            ELSE self
      [] self.policy.variant = "OnDropOnly" -> self

\* push_operation that does not consult the policy for a Len event.
push_operation_skips_len(self, operation, t1, t2) ==
    IF operation.op = "Len"
    THEN [self EXCEPT !.operations = Append(@, Operation(operation, t1)),
                      !.recorded = Append(@, Operation(operation, t1))]
    ELSE try_handle([self EXCEPT !.operations = Append(@, Operation(operation, t1)),
                                 !.recorded = Append(@, Operation(operation, t1))], t2)

\* ZondCollection::push_operation: t1 is the clock reading of Operation::new,
\* t2 the later reading of try_handle.
push_operation(self, operation, t1, t2) ==
    try_handle([self EXCEPT !.operations = Append(@, Operation(operation, t1)),
                            !.recorded = Append(@, Operation(operation, t1))], t2)

\* impl Drop for ZondCollection.
drop(self) == handle(self, "drop")

----------------------------------------------------------------------------
(* The instrumented vector of zvec.rs.  `self` is the view of one ZVec      *)
(* during a call: as above, with its buffer `metadata` and the underlying   *)
(* vector `inner` with its `capacity`; `returned` is the Result the call    *)
(* returns, "none" for a call that returns no Result.                       *)

ZVecView(z, p, in_drop) ==
    [id |-> z.id, inner |-> z.inner, capacity |-> z.capacity,
     metadata |-> z.metadata, policy |-> p,
     out |-> <<>>, recorded |-> z.recorded, in_drop |-> in_drop,
     left |-> IF in_drop THEN z.metadata ELSE <<>>, returned |-> "none"]

\* One call of ZondCollector::zond_collect as the consumer sees it (id,
\* operations), with where it came from (caller, in_drop), how many events
\* the instance had recorded by then (seq) and what the underlying vector
\* held at that moment (inner).
ZVecCall(self, caller) ==
    [id |-> self.id, operations |-> self.metadata, caller |-> caller,
     in_drop |-> self.in_drop, seq |-> Len(self.recorded), inner |-> self.inner]

\* ZVec::zond_collect.
zond_collect(self, caller) ==
    [self EXCEPT !.metadata = <<>>, !.out = Append(@, ZVecCall(self, caller))]

\* try_zond_collect whose OnDropOnly arm collects.
try_zond_collect_eager(self, t) ==
    CASE self.policy.variant = "OnCountOperations" ->
            IF self.policy.max_operations - 1 = self.policy.current_operations
            THEN zond_collect([self EXCEPT !.policy.current_operations = 0],
                              "try_zond_collect")
            ELSE [self EXCEPT !.policy.current_operations = @ + 1]
      [] self.policy.variant = "LessOften" ->
            IF duration_since(t, self.policy.last_collect) > self.policy.duration
            THEN zond_collect([self EXCEPT !.policy.last_collect = t],
                              "try_zond_collect")
            ELSE self
      [] self.policy.variant = "OnDropOnly" -> zond_collect(self, "try_zond_collect")

\* ZVec::try_zond_collect; t is its reading of Instant::now().
try_zond_collect(self, t) ==
    CASE self.policy.variant = "OnCountOperations" ->
            IF self.policy.max_operations - 1 = self.policy.current_operations
            THEN zond_collect([self EXCEPT !.policy.current_operations = 0],
                              "try_zond_collect")
            ELSE [self EXCEPT !.policy.current_operations = @ + 1]
      [] self.policy.variant = "LessOften" ->
            IF duration_since(t, self.policy.last_collect) > self.policy.duration
            THEN zond_collect([self EXCEPT !.policy.last_collect = t],
                              "try_zond_collect")
            ELSE self
      [] self.policy.variant = "OnDropOnly" -> self

\* ZVec::push_operation.
zvec_push_operation(self, operation, t1, t2) ==
    try_zond_collect(
        [self EXCEPT !.metadata = Append(@, ZVecOperationNew(operation, t1)),
                     !.recorded = Append(@, ZVecOperationNew(operation, t1))], t2)

\* impl Drop for ZVec.
zvec_drop(self, t1, t2) ==
    zond_collect(zvec_push_operation(self, OpType("Drop", 0), t1, t2), "drop")

\* new that restarts the timer of the policy it is given.
new_restarts_timer(self, t1, t2) ==
    zvec_push_operation([self EXCEPT !.policy.last_collect = t1],
                        OpType("New", 0), t1, t2)

\* ZVec::new, after the struct is built.
new(self, t1, t2) == zvec_push_operation(self, OpType("New", 0), t1, t2)

\* push that changes the vector before recording the call.
push_inner_first(self, value, t1, t2) ==
    zvec_push_operation([self EXCEPT !.inner = Append(@, value),
                                     !.capacity = IF Len(self.inner) < @ THEN @
                                                  ELSE Len(self.inner) + 1],
                        OpType("Push", value), t1, t2)

\* Vec::push on the underlying vector: a full vector grows by one place.
vec_push(self, value) ==
    [self EXCEPT !.inner = Append(@, value),
                 !.capacity = IF Len(self.inner) < @ THEN @ ELSE Len(self.inner) + 1]

\* ZVec::push.
push(self, value, t1, t2) ==
    LET recorded_self == zvec_push_operation(self, OpType("Push", value), t1, t2)
    IN  vec_push(recorded_self, value)

\* Vec::try_reserve / try_reserve_exact on the underlying vector: Ok when
\* the room is there or can be allocated (alloc), Err(CapacityOverflow) or
\* Err(AllocError) otherwise; an Err leaves the vector as it was.
vec_try_reserve(self, additional, alloc) ==
    IF self.capacity - Len(self.inner) >= additional
    THEN [self EXCEPT !.returned = "Ok"]
    ELSE IF Len(self.inner) + additional > MaxCapacity \/ ~alloc
         THEN [self EXCEPT !.returned = "Err"]
         ELSE [self EXCEPT !.capacity = Len(self.inner) + additional,
                           !.returned = "Ok"]

\* try_reserve that asks the vector first and records only what succeeded.
try_reserve_records_on_success(self, op, additional, alloc, t1, t2) ==
    LET reserved == vec_try_reserve(self, additional, alloc)
    IN  IF reserved.returned = "Ok"
        THEN zvec_push_operation(reserved, OpType(op, additional), t1, t2)
        ELSE reserved

\* ZVec::try_reserve (op = "TryReserve") and ZVec::try_reserve_exact
\* (op = "TryReserveExact"): record the call, then return what the vector
\* returns.
try_reserve(self, op, additional, alloc, t1, t2) ==
    vec_try_reserve(zvec_push_operation(self, OpType(op, additional), t1, t2),
                    additional, alloc)

\* ZVec::len: the vector is only read.
len(self, t1, t2) == zvec_push_operation(self, OpType("Len", 0), t1, t2)

\* `self`, taken by value, goes out of scope at the end of the method.
EndOfScope(self) == [self EXCEPT !.in_drop = TRUE, !.left = self.metadata]

\* ZVec::into_boxed_slice(self): record the call, return a copy of the
\* vector; then self is dropped (t3, t4 are the destructor's clock readings).
into_boxed_slice(self, t1, t2, t3, t4) ==
    zvec_drop(EndOfScope(zvec_push_operation(self, OpType("IntoBoxedSlice", 0),
                                             t1, t2)), t3, t4)

\* ZVec::leak(self): as into_boxed_slice, with its own event.
leak(self, t1, t2, t3, t4) ==
    zvec_drop(EndOfScope(zvec_push_operation(self, OpType("Leak", 0), t1, t2)),
              t3, t4)

----------------------------------------------------------------------------
(* State *)

\* The policies a run starts with: one configuration, built at time 0.
Policies ==
    {on_drop_only}
        \cup {on_count_operations(max_operations) : max_operations \in Thresholds}
        \cup {less_often(duration, 0) : duration \in Durations}

Init ==
    /\ ID_GENERATOR = 0
    /\ zvec_ID_GENERATOR = 0
    /\ now = 0
    /\ heap \in {<<inner>> : inner \in Policies}
    /\ zonds = <<Zond("handler", 1)>>
    /\ collections = <<>>
    /\ zvecs = <<>>
    /\ handled = <<>>
    /\ collected = <<>>

\* The calls made so far: clones of the policy, and the constructors, methods
\* and destructors of logs and vectors (a vector's constructor and destructor
\* record an event each).
RECURSIVE CollectionCalls(_)
CollectionCalls(cs) ==
    IF cs = <<>> THEN 0
    ELSE 1 + Len(cs[1].recorded) + (IF cs[1].live THEN 0 ELSE 1)
           + CollectionCalls(Tail(cs))

RECURSIVE ZVecCalls(_)
ZVecCalls(zs) ==
    IF zs = <<>> THEN 0 ELSE Len(zs[1].recorded) + ZVecCalls(Tail(zs))

NoCalls == (Len(zonds) - 1) + CollectionCalls(collections) + ZVecCalls(zvecs)

\* Time passes between two calls.
Tick ==
    /\ now < MaxTime
    /\ now' = now + 1
    /\ UNCHANGED <<ID_GENERATOR, zvec_ID_GENERATOR, heap, zonds, collections, zvecs,
                   handled, collected>>

\* zond.clone() / policy.clone() on a configuration the caller holds.
ZondClone ==
    /\ NoCalls < MaxCalls
    /\ \E z \in DOMAIN zonds :
          /\ zonds[z].held
          /\ LET cloned == zond_clone(heap, zonds[z], now)
             IN  /\ heap' = cloned.heap
                 /\ zonds' = Append(zonds, cloned.zond)
    /\ UNCHANGED <<ID_GENERATOR, zvec_ID_GENERATOR, now, collections, zvecs,
                   handled, collected>>

\* ZondCollection::new(zond): the zond z is moved in.
CollectionNew ==
    /\ NoCalls < MaxCalls
    /\ \E z \in DOMAIN zonds :
          /\ zonds[z].held
          /\ zonds' = [zonds EXCEPT ![z].held = FALSE]
          /\ collections' = Append(collections,
                [id |-> fetch_add(ID_GENERATOR, 1).previous, operations |-> <<>>,
                 zond |-> [zond_handler |-> zonds[z].zond_handler,
                           policy |-> zonds[z].policy],
                 live |-> TRUE, recorded |-> <<>>, left |-> <<>>])
    /\ ID_GENERATOR' = fetch_add(ID_GENERATOR, 1).stored
    /\ UNCHANGED <<zvec_ID_GENERATOR, now, heap, zvecs, handled, collected>>

\* A call on collection i that leaves the policy state in the first place
\* of the heap, whichever policy the collection owns.
Stored_in_first_cell(i, self) ==
    /\ collections' = [collections EXCEPT ![i].operations = self.operations,
                                          ![i].recorded = self.recorded,
                                          ![i].live = ~self.in_drop,
                                          ![i].left = self.left]
    /\ heap' = [heap EXCEPT ![1] = self.policy]
    /\ handled' = handled \o self.out

\* Store what a call on collection i left behind.
Stored(i, self) ==
    /\ collections' = [collections EXCEPT ![i].operations = self.operations,
                                          ![i].recorded = self.recorded,
                                          ![i].live = ~self.in_drop,
                                          ![i].left = self.left]
    /\ heap' = [heap EXCEPT ![collections[i].zond.policy] = self.policy]
    /\ handled' = handled \o self.out

CollectionPushOperation ==
    \E i \in DOMAIN collections, operation \in OperationTypes, skew \in Skews :
        /\ collections[i].live
        /\ NoCalls < MaxCalls
        /\ now + skew <= MaxTime
        /\ Stored(i, push_operation(
                View(collections[i], heap[collections[i].zond.policy], FALSE),
                operation, now, now + skew))
        /\ now' = now + skew
        /\ UNCHANGED <<ID_GENERATOR, zvec_ID_GENERATOR, zonds, zvecs, collected>>

CollectionDrop ==
    \E i \in DOMAIN collections :
        /\ collections[i].live
        /\ NoCalls < MaxCalls
        /\ Stored(i, drop(View(collections[i], heap[collections[i].zond.policy], TRUE)))
        /\ UNCHANGED <<ID_GENERATOR, zvec_ID_GENERATOR, now, zonds, zvecs, collected>>

\* What a call on vector i left behind.
ZVecStored(i, self) ==
    /\ zvecs' = [zvecs EXCEPT ![i].inner = self.inner,
                              ![i].capacity = self.capacity,
                              ![i].returned = self.returned,
                              ![i].metadata = self.metadata,
                              ![i].recorded = self.recorded,
                              ![i].live = ~self.in_drop,
                              ![i].left = self.left]
    /\ heap' = [heap EXCEPT ![zvecs[i].policy] = self.policy]
    /\ collected' = collected \o self.out

\* ZVec::new(zond_collector, policy): the two parts of zond z are moved in.
ZVecNew ==
    \E z \in DOMAIN zonds, skew \in Skews :
        /\ NoCalls < MaxCalls
        /\ now + skew <= MaxTime
        /\ zonds[z].held
        /\ zonds' = [zonds EXCEPT ![z].held = FALSE]
        /\ LET v == [id |-> fetch_add(zvec_ID_GENERATOR, 1).previous,
                     inner |-> <<>>, capacity |-> 0, returned |-> "none",
                     metadata |-> <<>>,
                     policy |-> zonds[z].policy,
                     zond_collector |-> zonds[z].zond_handler,
                     live |-> TRUE, recorded |-> <<>>, left |-> <<>>]
               self == new(ZVecView(v, heap[v.policy], FALSE), now, now + skew)
           IN  /\ zvecs' = Append(zvecs, [v EXCEPT !.metadata = self.metadata,
                                                   !.recorded = self.recorded])
               /\ heap' = [heap EXCEPT ![v.policy] = self.policy]
               /\ collected' = collected \o self.out
        /\ zvec_ID_GENERATOR' = fetch_add(zvec_ID_GENERATOR, 1).stored
        /\ now' = now + skew
        /\ UNCHANGED <<ID_GENERATOR, collections, handled>>

ZVecPush ==
    \E i \in DOMAIN zvecs, value \in Values, skew \in Skews :
        /\ zvecs[i].live
        /\ Len(zvecs[i].inner) < MaxCapacity
        /\ NoCalls < MaxCalls
        /\ now + skew <= MaxTime
        /\ ZVecStored(i, push(ZVecView(zvecs[i], heap[zvecs[i].policy], FALSE),
                              value, now, now + skew))
        /\ now' = now + skew
        /\ UNCHANGED <<ID_GENERATOR, zvec_ID_GENERATOR, zonds, collections, handled>>

ZVecTryReserve ==
    \E i \in DOMAIN zvecs, op \in {"TryReserve", "TryReserveExact"},
       additional \in Additionals, alloc \in BOOLEAN, skew \in Skews :
        /\ zvecs[i].live
        /\ NoCalls < MaxCalls
        /\ now + skew <= MaxTime
        /\ ZVecStored(i, try_reserve(ZVecView(zvecs[i], heap[zvecs[i].policy], FALSE),
                                     op, additional, alloc, now, now + skew))
        /\ now' = now + skew
        /\ UNCHANGED <<ID_GENERATOR, zvec_ID_GENERATOR, zonds, collections, handled>>

ZVecLen ==
    \E i \in DOMAIN zvecs, skew \in Skews :
        /\ zvecs[i].live
        /\ NoCalls < MaxCalls
        /\ now + skew <= MaxTime
        /\ ZVecStored(i, len(ZVecView(zvecs[i], heap[zvecs[i].policy], FALSE),
                             now, now + skew))
        /\ now' = now + skew
        /\ UNCHANGED <<ID_GENERATOR, zvec_ID_GENERATOR, zonds, collections, handled>>

\* v.into_boxed_slice(): the call and the destructor record an event each.
ZVecIntoBoxedSlice ==
    \E i \in DOMAIN zvecs, skew \in Skews, drop_skew \in Skews :
        /\ zvecs[i].live
        /\ NoCalls + 1 < MaxCalls
        /\ now + skew + drop_skew <= MaxTime
        /\ ZVecStored(i, into_boxed_slice(
                ZVecView(zvecs[i], heap[zvecs[i].policy], FALSE),
                now, now + skew, now + skew, now + skew + drop_skew))
        /\ now' = now + skew + drop_skew
        /\ UNCHANGED <<ID_GENERATOR, zvec_ID_GENERATOR, zonds, collections, handled>>

\* v.leak().
ZVecLeak ==
    \E i \in DOMAIN zvecs, skew \in Skews, drop_skew \in Skews :
        /\ zvecs[i].live
        /\ NoCalls + 1 < MaxCalls
        /\ now + skew + drop_skew <= MaxTime
        /\ ZVecStored(i, leak(ZVecView(zvecs[i], heap[zvecs[i].policy], FALSE),
                              now, now + skew, now + skew, now + skew + drop_skew))
        /\ now' = now + skew + drop_skew
        /\ UNCHANGED <<ID_GENERATOR, zvec_ID_GENERATOR, zonds, collections, handled>>

\* The vector goes out of scope.
ZVecDrop ==
    \E i \in DOMAIN zvecs, skew \in Skews :
        /\ zvecs[i].live
        /\ NoCalls < MaxCalls
        /\ now + skew <= MaxTime
        /\ ZVecStored(i, zvec_drop(ZVecView(zvecs[i], heap[zvecs[i].policy], TRUE),
                                   now, now + skew))
        /\ now' = now + skew
        /\ UNCHANGED <<ID_GENERATOR, zvec_ID_GENERATOR, zonds, collections, handled>>

Next ==
    \/ Tick
    \/ ZondClone
    \/ CollectionNew
    \/ CollectionPushOperation
    \/ CollectionDrop
    \/ ZVecNew
    \/ ZVecPush
    \/ ZVecLen
    \/ ZVecDrop

Spec == Init /\ [][Next]_vars

\* One vector while it lives, with the fallible calls on it; the clock
\* advances between the two readings of a call.
NextFallible ==
    \/ ZVecNew
    \/ ZVecPush
    \/ ZVecTryReserve

SpecFallible == Init /\ [][NextFallible]_vars

\* Vectors that end in a conversion by value.
NextConversion ==
    \/ Tick
    \/ ZondClone
    \/ ZVecNew
    \/ ZVecPush
    \/ ZVecIntoBoxedSlice
    \/ ZVecLeak

SpecConversion == Init /\ [][NextConversion]_vars

----------------------------------------------------------------------------
(* What the consumer saw of one instance *)

\* The calls among `calls` that carry the instance id `id`, in order.
CallsOf(calls, id) == LET Mine(c) == c.id = id IN SelectSeq(calls, Mine)

\* The batches of `calls` put end to end.
RECURSIVE Concat(_)
Concat(calls) ==
    IF calls = <<>> THEN <<>> ELSE calls[1].operations \o Concat(Tail(calls))

\* The calls made from inside the destructor.
InDrop(calls) == LET D(c) == c.in_drop IN SelectSeq(calls, D)

\* The batch starts with the events evs.
StartsWith(batch, evs) ==
    Len(batch) >= Len(evs) /\ SubSeq(batch, 1, Len(evs)) = evs

\* Every log and vector, with its calls and its policy state.
Instances ==
    {[kind |-> "ZondCollection", live |-> collections[i].live,
      recorded |-> collections[i].recorded, left |-> collections[i].left,
      buffer |-> collections[i].operations,
      calls |-> CallsOf(handled, collections[i].id),
      policy |-> heap[collections[i].zond.policy],
      policy_caller |-> "try_handle"] : i \in DOMAIN collections}
    \cup
    {[kind |-> "ZVec", live |-> zvecs[i].live,
      recorded |-> zvecs[i].recorded, left |-> zvecs[i].left,
      buffer |-> zvecs[i].metadata,
      calls |-> [n \in DOMAIN CallsOf(collected, zvecs[i].id) |->
                    [f \in {"id", "operations", "caller", "in_drop", "seq"} |->
                        CallsOf(collected, zvecs[i].id)[n][f]]],
      policy |-> heap[zvecs[i].policy],
      policy_caller |-> "try_zond_collect"] : i \in DOMAIN zvecs}

----------------------------------------------------------------------------
(* Claims *)

\* C1: once an instance is destroyed, the batches its id received, put end
\* to end in delivery order, are exactly the events it recorded, in recording
\* order: nothing lost, duplicated or reordered.
C1_Ordering ==
    \A x \in Instances : ~x.live => Concat(x.calls) = x.recorded

\* C1 witness: a destroyed vector whose three events arrived in two batches.
C1_Witness ==
    \E x \in Instances :
        x.kind = "ZVec" /\ ~x.live /\ Len(x.recorded) = 3 /\ Len(x.calls) >= 2

\* C2: under CountThreshold with max = k every batch delivered by the policy
\* (hence every batch delivered before teardown) holds exactly k events, and
\* the policy flushes on the k-th, 2k-th, ... recorded event and on no other.
C2_CountThresholdExact ==
    \A x \in Instances :
        x.policy.variant = "OnCountOperations" =>
            LET k == x.policy.max_operations
            IN  /\ \A n \in DOMAIN x.calls :
                      (x.calls[n].caller = x.policy_caller \/ ~x.calls[n].in_drop)
                          => Len(x.calls[n].operations) = k
                /\ \A m \in 1..Len(x.recorded) :
                      (m % k = 0) <=>
                          \E n \in DOMAIN x.calls :
                              /\ x.calls[n].caller = x.policy_caller
                              /\ x.calls[n].seq = m

\* C2 witness: with max = 2 three events were recorded and the policy flushed
\* once, on the second.
C2_Witness ==
    \E x \in Instances :
        /\ x.policy.variant = "OnCountOperations" /\ x.policy.max_operations = 2
        /\ x.live /\ Len(x.recorded) = 3
        /\ Len(x.calls) = 1 /\ x.calls[1].seq = 2

\* C3: under DropOnly the consumer is not called for an instance before its
\* teardown; at teardown it is called once, with every event recorded.
C3_DropOnly ==
    \A x \in Instances :
        x.policy.variant = "OnDropOnly" =>
            IF x.live THEN x.calls = <<>>
            ELSE Len(x.calls) = 1 /\ x.calls[1].operations = x.recorded

\* C3 witness: a destroyed DropOnly instance that had recorded three events.
C3_Witness ==
    \E x \in Instances :
        x.policy.variant = "OnDropOnly" /\ ~x.live /\ Len(x.recorded) = 3

\* C4: destroying an instance whose buffer holds unflushed events makes
\* exactly one delivery, and that delivery holds all of those events.
C4_TeardownDelivery ==
    \A x \in Instances :
        (~x.live /\ x.left # <<>>) =>
            /\ Len(InDrop(x.calls)) = 1
            /\ StartsWith(InDrop(x.calls)[1].operations, x.left)

\* C5: teardown calls the consumer exactly once, whatever the policy and its
\* state, and that call is the last one made with the instance's id.
C5_TeardownOnce ==
    \A x \in Instances :
        ~x.live =>
            /\ Len(InDrop(x.calls)) = 1
            /\ x.calls[Len(x.calls)].in_drop

\* C6: two logs never share an id, and two vectors never share an id.
C6_UniqueIds ==
    /\ \A i, j \in DOMAIN collections :
          i # j => collections[i].id # collections[j].id
    /\ \A i, j \in DOMAIN zvecs : i # j => zvecs[i].id # zvecs[j].id

\* C6 witness: two vectors alive at once.
C6_Witness ==
    \E i, j \in DOMAIN zvecs : i # j /\ zvecs[i].live /\ zvecs[j].live

----------------------------------------------------------------------------
(* One step seen from the instance that recorded an event in it *)

\* The events `later` holds beyond `earlier`.
Grown(earlier, later) == Len(later) > Len(earlier)

\* The instances that record an event in the step, each with the state of
\* its policy before and after, the event, and whether the policy flushed.
RecordingSteps ==
    {[who |-> <<"ZondCollection", i>>,
      before |-> heap[collections'[i].zond.policy],
      after |-> heap'[collections'[i].zond.policy],
      event |-> collections'[i].recorded[Len(collections'[i].recorded)],
      flushed |-> \E n \in DOMAIN handled' :
                      n > Len(handled) /\ handled'[n].caller = "try_handle"]
        : i \in {j \in DOMAIN collections' :
                    Grown(IF j \in DOMAIN collections THEN collections[j].recorded
                          ELSE <<>>, collections'[j].recorded)}}
    \cup
    {[who |-> <<"ZVec", i>>,
      before |-> heap[zvecs'[i].policy],
      after |-> heap'[zvecs'[i].policy],
      event |-> zvecs'[i].recorded[Len(zvecs'[i].recorded)],
      flushed |-> \E n \in DOMAIN collected' :
                      n > Len(collected) /\ collected'[n].caller = "try_zond_collect"]
        : i \in {j \in DOMAIN zvecs' :
                    Grown(IF j \in DOMAIN zvecs THEN zvecs[j].recorded ELSE <<>>,
                          zvecs'[j].recorded)}}

\* The place of the policy state of every instance but `who`.
OtherCells(who) ==
    {collections[i].zond.policy : i \in {j \in DOMAIN collections :
                                            <<"ZondCollection", j>> # who}}
    \cup {zvecs[i].policy : i \in {j \in DOMAIN zvecs : <<"ZVec", j>> # who}}

\* C7 as claimed: the elapsed time is taken at the event's own timestamp; an
\* event at elapsed <= duration never flushes, one at elapsed > duration
\* flushes and the last flush instant becomes the event's timestamp.
C7_DebouncedAtEventTime ==
    [][\A s \in RecordingSteps :
          s.before.variant = "LessOften" =>
              LET elapsed == s.event.instant - s.before.last_collect
              IN  /\ elapsed <= s.before.duration => ~s.flushed
                  /\ elapsed > s.before.duration =>
                        s.flushed /\ s.after.last_collect = s.event.instant]_vars

\* C7 amended: the elapsed time is taken at the policy's own clock reading,
\* made after the event was stamped (now' in the step): the event flushes
\* exactly when that elapsed time is strictly greater than the duration, the
\* flush sets the last flush instant to that reading, which is never earlier
\* than the event's timestamp, and a non-flushing event leaves it unchanged.
C7_DebouncedAtEvaluation ==
    [][\A s \in RecordingSteps :
          s.before.variant = "LessOften" =>
              LET elapsed == now' - s.before.last_collect
              IN  /\ s.flushed <=> elapsed > s.before.duration
                  /\ s.after.last_collect =
                        IF s.flushed THEN now' ELSE s.before.last_collect
                  /\ s.event.instant <= now'
                  /\ s.event.instant - s.before.last_collect > s.before.duration
                        => s.flushed]_vars

\* C7 witness: a Debounced instance whose policy flushed on one event, at a
\* reading later than the event's timestamp, and then let another event pass.
C7_Witness ==
    \E x \in Instances :
        /\ x.policy.variant = "LessOften"
        /\ Len(x.calls) = 1 /\ x.calls[1].caller = x.policy_caller
        /\ x.recorded[x.calls[1].seq].instant < x.policy.last_collect
        /\ x.buffer # <<>>

PolicyStates ==
    {on_drop_only}
        \cup {PolicyInner("OnCountOperations", m, c, 0, 0) :
                 m \in Thresholds, c \in 0..MaxThreshold}
        \cup {PolicyInner("LessOften", 0, 0, d, t) : d \in Durations, t \in 0..MaxTime}

\* The clone c of policy state p made at time t: the parameters of p, a
\* counter of 0 and a last flush instant of t.
FreshCopy(c, p, t) ==
    /\ c.variant = p.variant
    /\ c.max_operations = p.max_operations
    /\ c.duration = p.duration
    /\ c.current_operations = 0
    /\ p.variant = "LessOften" => c.last_collect = t

\* C9: a clone has the parameters of the original and a fresh state (counter
\* 0, last flush instant = time of the clone) whatever the state of the
\* original, the original is left as it was, and an event recorded by one
\* instance changes the policy state of no other instance.
C9_CloneFreshAndSeparate ==
    [][/\ \A p \in PolicyStates : FreshCopy(clone(p, now), p, now)
       /\ Len(zonds') > Len(zonds) =>
             \E z \in DOMAIN zonds :
                 /\ zonds[z].held
                 /\ FreshCopy(heap'[zonds'[Len(zonds')].policy],
                              heap[zonds[z].policy], now)
                 /\ zonds'[Len(zonds')].zond_handler = zonds[z].zond_handler
                 /\ \A q \in DOMAIN heap : heap'[q] = heap[q]
       /\ \A s \in RecordingSteps :
             \A q \in OtherCells(s.who) : heap'[q] = heap[q]]_vars

\* C9 witness: two instances built from the original and from its clone, the
\* policy state of one advanced by an event, that of the other still fresh.
C9_Witness ==
    \E i, j \in DOMAIN collections :
        /\ i # j
        /\ collections[i].recorded # <<>> /\ collections[j].recorded = <<>>
        /\ heap[collections[i].zond.policy].current_operations = 1
        /\ heap[collections[j].zond.policy].current_operations = 0

\* The values the Push events among `events` pushed, in order.
RECURSIVE Pushed(_)
Pushed(events) ==
    IF events = <<>> THEN <<>>
    ELSE (IF events[1].operation_type.op = "Push"
          THEN <<events[1].operation_type.value>> ELSE <<>>) \o Pushed(Tail(events))

\* C10: the event of a call is in the log, and the flush it triggers is
\* delivered, before the call changes the underlying vector: when the
\* consumer is called by the policy on the n-th event the vector still holds
\* the effect of the first n-1 events only, and once the call has returned it
\* holds the effect of every recorded event.
C10_RecordBeforeDelegate ==
    \A i \in DOMAIN zvecs :
        /\ zvecs[i].inner = Pushed(zvecs[i].recorded)
        /\ \A c \in {collected[n] : n \in DOMAIN collected} :
              (c.id = zvecs[i].id /\ c.caller = "try_zond_collect") =>
                  /\ c.operations # <<>>
                  /\ c.operations[Len(c.operations)] = zvecs[i].recorded[c.seq]
                  /\ c.inner = Pushed(SubSeq(zvecs[i].recorded, 1, c.seq - 1))

\* C10 witness: a push triggered a flush, delivered while the vector did not
\* yet hold the pushed value.
C10_Witness ==
    \E i \in DOMAIN zvecs : \E n \in DOMAIN collected :
        /\ collected[n].id = zvecs[i].id
        /\ collected[n].caller = "try_zond_collect"
        /\ collected[n].operations[Len(collected[n].operations)].operation_type.op = "Push"
        /\ Len(zvecs[i].inner) = Len(collected[n].inner) + 1

\* The vectors on which the step made a call, each with the state of its
\* policy before and after.
ZVecSteps ==
    {[i |-> i, before |-> heap[zvecs[i].policy], after |-> heap'[zvecs[i].policy]]
        : i \in {j \in DOMAIN zvecs : zvecs'[j] # zvecs[j]}}

\* The state a policy is left in by one more event, whatever the event.
Advanced(p, t) ==
    CASE p.variant = "OnCountOperations" ->
            [p EXCEPT !.current_operations =
                          IF @ = p.max_operations - 1 THEN 0 ELSE @ + 1]
      [] p.variant = "LessOften" ->
            [p EXCEPT !.last_collect = IF t - @ > p.duration THEN t ELSE @]
      [] p.variant = "OnDropOnly" -> p

\* C11: a try_reserve / try_reserve_exact that returns Err leaves the
\* underlying vector (contents and capacity) as it was, and has recorded the
\* event of the attempt: the log grew by that one event, the policy state
\* advanced as for any recorded event, and everything recorded so far is in
\* a delivered batch or in the buffer.
C11_FailedAttemptRecorded ==
    [][\A s \in ZVecSteps :
          zvecs'[s.i].returned = "Err" =>
              /\ zvecs'[s.i].inner = zvecs[s.i].inner
              /\ zvecs'[s.i].capacity = zvecs[s.i].capacity
              /\ Len(zvecs'[s.i].recorded) = Len(zvecs[s.i].recorded) + 1
              /\ SubSeq(zvecs'[s.i].recorded, 1, Len(zvecs[s.i].recorded))
                    = zvecs[s.i].recorded
              /\ zvecs'[s.i].recorded[Len(zvecs'[s.i].recorded)].operation_type.op
                    \in {"TryReserve", "TryReserveExact"}
              /\ s.after = Advanced(s.before, now')
              /\ Concat(CallsOf(collected', zvecs'[s.i].id)) \o zvecs'[s.i].metadata
                    = zvecs'[s.i].recorded]_vars

\* C11 witness: a try_reserve on a vector that holds a value returned Err,
\* and its event, the second of a CountThreshold(2) policy, was delivered.
C11_Witness ==
    \E i \in DOMAIN zvecs :
        /\ zvecs[i].returned = "Err" /\ zvecs[i].inner # <<>>
        /\ zvecs[i].metadata = <<>>
        /\ heap[zvecs[i].policy].variant = "OnCountOperations"
        /\ \E n \in DOMAIN collected :
              /\ collected[n].id = zvecs[i].id
              /\ collected[n].seq = Len(zvecs[i].recorded)

\* The batch of the n-th call of instance x is what x recorded after its
\* previous call and up to this one.
OwnSlice(x, n) ==
    LET from == IF n = 1 THEN 0 ELSE x.calls[n - 1].seq
    IN  /\ from <= x.calls[n].seq
        /\ x.calls[n].seq <= Len(x.recorded)
        /\ x.calls[n].operations = SubSeq(x.recorded, from + 1, x.calls[n].seq)

\* C12: with one consumer shared by several instances, every call carries
\* the id of exactly one instance, its batch holds events of that instance
\* only (the events it recorded since its previous call), and the calls of
\* one id arrive in the order the instance produced them.
C12_NoMergingAcrossInstances ==
    /\ \A n \in DOMAIN handled :
          \E i \in DOMAIN collections : handled[n].id = collections[i].id
    /\ \A n \in DOMAIN collected :
          \E i \in DOMAIN zvecs : collected[n].id = zvecs[i].id
    /\ \A x \in Instances : \A n \in DOMAIN x.calls : OwnSlice(x, n)

\* C12 witness: two vectors built from one configuration and its clone,
\* whose deliveries to the shared consumer are interleaved.
C12_Witness ==
    /\ Len(collected) = 3
    /\ collected[1].id = collected[3].id /\ collected[1].id # collected[2].id
    /\ \A n \in 1..3 : collected[n].operations # <<>>

\* C13: the counters start at 0 and never decrease; the n-th log built has
\* id n - 1, and so has the n-th vector; an id stays what it was for as
\* long as the instance is known, alive or destroyed; and a new instance
\* takes an id that no earlier instance of its type has, destroyed ones
\* included.
C13_SequentialIds ==
    [][/\ ID_GENERATOR' >= ID_GENERATOR
       /\ zvec_ID_GENERATOR' >= zvec_ID_GENERATOR
       /\ \A i \in DOMAIN collections' : collections'[i].id = i - 1
       /\ \A i \in DOMAIN zvecs' : zvecs'[i].id = i - 1
       /\ \A i \in DOMAIN collections :
             i \in DOMAIN collections' /\ collections'[i].id = collections[i].id
       /\ \A i \in DOMAIN zvecs :
             i \in DOMAIN zvecs' /\ zvecs'[i].id = zvecs[i].id
       /\ \A i \in DOMAIN collections' \ DOMAIN collections :
             /\ collections'[i].id = ID_GENERATOR
             /\ \A j \in DOMAIN collections : collections[j].id < collections'[i].id
       /\ \A i \in DOMAIN zvecs' \ DOMAIN zvecs :
             /\ zvecs'[i].id = zvec_ID_GENERATOR
             /\ \A j \in DOMAIN zvecs : zvecs[j].id < zvecs'[i].id]_vars

\* C13 witness: two logs were built, the first (id 0) is destroyed, the
\* second (id 1) lives, and the counter is at 2.
C13_Witness ==
    /\ Len(collections) = 2
    /\ ~collections[1].live /\ collections[1].id = 0
    /\ collections[2].live /\ collections[2].id = 1
    /\ collections[2].left = <<>> /\ ID_GENERATOR = 2

\* The events the constructor and the methods called on the instance
\* recorded: every recorded event but the destructor's.
RECURSIVE OfCalls(_)
OfCalls(events) ==
    IF events = <<>> THEN <<>>
    ELSE (IF events[1].operation_type.op = "Drop" THEN <<>> ELSE <<events[1]>>)
             \o OfCalls(Tail(events))

\* C14: under CountThreshold with max = k an instance on which construction
\* and the operations called recorded N events has received, once destroyed,
\* N \div k + 1 batches: N \div k of k events, then the teardown batch of
\* N % k events; a vector's first event is New.
C14_BatchCount ==
    \A x \in Instances :
        (~x.live /\ x.policy.variant = "OnCountOperations") =>
            LET k == x.policy.max_operations
                N == Len(OfCalls(x.recorded))
            IN  /\ x.kind = "ZVec" => x.recorded[1].operation_type.op = "New"
                /\ Len(x.calls) = (N \div k) + 1
                /\ \A n \in 1..(Len(x.calls) - 1) : Len(x.calls[n].operations) = k
                /\ Len(x.calls[Len(x.calls)].operations) = N % k

\* C15: no CountThreshold policy has a threshold of zero, so that the
\* max - 1 its evaluation compares the counter with is never below zero, and
\* the counter stays within 0 .. max - 1.
C15_ThresholdPositive ==
    \A q \in DOMAIN heap :
        heap[q].variant = "OnCountOperations" =>
            /\ heap[q].max_operations >= 1
            /\ heap[q].max_operations - 1 >= 0
            /\ heap[q].current_operations \in 0..(heap[q].max_operations - 1)

\* C15 witness: a threshold of 1, whose max - 1 is 0, was compared with the
\* counter and the policy flushed.
C15_Witness ==
    \E x \in Instances :
        /\ x.policy.variant = "OnCountOperations" /\ x.policy.max_operations = 1
        /\ x.live /\ Len(x.calls) = 2 /\ x.calls[2].caller = x.policy_caller

\* C16: the events delivered for a destroyed instance are those its
\* constructor and the operations called on it recorded; the destructor
\* records none, so what it delivers is what the buffer held when it began,
\* and the last event delivered is that of the last operation called.
C16_NoTeardownEvent ==
    \A x \in Instances :
        ~x.live =>
            /\ Concat(x.calls) = OfCalls(x.recorded)
            /\ Concat(InDrop(x.calls)) = x.left
            /\ x.recorded # <<>> =>
                  x.recorded[Len(x.recorded)].operation_type.op # "Drop"

\* What a step does to the last flush instants: a policy built in the step
\* has the time of the step; a policy that was there changes only by the
\* flush of an event of its own instance; an event stamped more than
\* `duration` after the last flush instant flushes, any other event that
\* does not flush leaves the policy as it was.
TimerStep ==
    /\ \A q \in DOMAIN heap' \ DOMAIN heap :
          heap'[q].variant = "LessOften" => heap'[q].last_collect = now
    /\ \A q \in DOMAIN heap :
          (heap[q].variant = "LessOften" /\ heap'[q] # heap[q]) =>
              \E s \in RecordingSteps :
                  s.flushed /\ s.before = heap[q] /\ s.after = heap'[q]
    /\ \A s \in RecordingSteps :
          s.before.variant = "LessOften" =>
              /\ s.event.instant - s.before.last_collect > s.before.duration
                    => s.flushed
              /\ ~s.flushed => s.after = s.before

\* C17: the last flush instant of a Debounced policy is the time the policy
\* was built or cloned, and from then on only a policy flush changes it:
\* building a container from the policy does not, a non-flushing event does
\* not.  So an event stamped more than `duration` after the last flush
\* instant flushes, be it the construction event of a container built from
\* an old policy or the last of a stream of events each within `duration`
\* of the one before.
C17_TimerFromPolicyCreation ==
    /\ \A q \in DOMAIN heap :
          heap[q].variant = "LessOften" => heap[q].last_collect = now
    /\ [][TimerStep]_vars

\* The events are each within d of the one before.
Steady(events, d) ==
    \A n \in 2..Len(events) : events[n].instant - events[n - 1].instant <= d

\* C17 witness: a vector built from a policy as old as its duration, so
\* that its construction event did not flush; then two events, each within
\* `duration` of the one before, the second of which flushed all three.
C17_Witness ==
    \E x \in Instances :
        /\ x.policy.variant = "LessOften" /\ x.policy.duration = 1
        /\ x.kind = "ZVec" /\ Len(x.recorded) = 3
        /\ x.recorded[1].instant = 1
        /\ Steady(x.recorded, x.policy.duration)
        /\ Len(x.calls) = 1 /\ x.calls[1].seq = 3
        /\ x.calls[1].caller = x.policy_caller

\* C18: under CountThreshold, whenever a live instance is between two
\* calls, the counter of its policy is the number of events in its buffer,
\* and that number is below max; if its last event made the policy flush,
\* both are 0.
C18_CounterIsBufferLength ==
    \A x \in Instances :
        (x.live /\ x.policy.variant = "OnCountOperations") =>
            /\ x.policy.current_operations = Len(x.buffer)
            /\ Len(x.buffer) < x.policy.max_operations
            /\ (x.calls # <<>> /\ x.calls[Len(x.calls)].seq = Len(x.recorded)) =>
                  x.policy.current_operations = 0 /\ x.buffer = <<>>

\* C18 witness: a live log with max = 2 whose policy flushed on the second
\* event and counted the third.
C18_Witness ==
    \E x \in Instances :
        /\ x.kind = "ZondCollection" /\ x.live
        /\ x.policy.variant = "OnCountOperations" /\ x.policy.max_operations = 2
        /\ Len(x.calls) = 1 /\ Len(x.recorded) = 3
        /\ x.policy.current_operations = 1 /\ Len(x.buffer) = 1

Conversions(events) ==
    LET C(ev) == ev.operation_type.op \in {"IntoBoxedSlice", "Leak"}
    IN  SelectSeq(events, C)

\* C20: a vector consumed by a conversion by value has had its conversion
\* event and every event it had buffered delivered exactly once, and the
\* conversion event is the last event delivered with its id.
C20_ConversionLast ==
    \A x \in Instances :
        (~x.live /\ Conversions(x.recorded) # <<>>) =>
            /\ Concat(x.calls) = x.recorded
            /\ Len(Conversions(Concat(x.calls))) = 1
            /\ Conversions(Concat(x.calls))[1]
                  = Concat(x.calls)[Len(Concat(x.calls))]

\* The events, each with its operation type replaced by `operation`.
Rewritten(events, operation) ==
    [n \in DOMAIN events |-> Operation(operation, events[n].instant)]

\* The sizes of the batches of the calls, in order.
Boundaries(calls) == [n \in DOMAIN calls |-> Len(calls[n].operations)]

\* C21: what an event makes the policy do does not depend on what the
\* events are.  Whenever a log records an event, the same call made at the
\* same two clock readings with any other operation type, on a log that had
\* recorded the same number of events at the same times but of any other
\* type, leaves the same policy state, makes the same deliveries with the
\* same batch sizes and leaves as many events in the buffer; so two runs
\* that differ in event contents only have the same batch boundaries.
C21_ContentsIrrelevant ==
    [][\A i \in DOMAIN collections :
          Grown(collections[i].recorded, collections'[i].recorded) =>
              LET event == collections'[i].recorded[Len(collections'[i].recorded)]
                  made == SubSeq(handled', Len(handled) + 1, Len(handled'))
              IN  \A earlier, operation \in OperationTypes :
                      LET other == push_operation(
                                       View([collections[i] EXCEPT
                                                !.operations = Rewritten(@, earlier),
                                                !.recorded = Rewritten(@, earlier)],
                                            heap[collections[i].zond.policy], FALSE),
                                       operation, event.instant, now')
                      IN  /\ other.policy = heap'[collections[i].zond.policy]
                          /\ Boundaries(other.out) = Boundaries(made)
                          /\ Len(other.operations) = Len(collections'[i].operations)
                          /\ Len(other.recorded) = Len(collections'[i].recorded)]_vars

\* C21 witness: a log under CountThreshold(2) whose policy delivered a batch
\* of two events of different operation types.
C21_Witness ==
    \E x \in Instances :
        /\ x.kind = "ZondCollection"
        /\ x.policy.variant = "OnCountOperations" /\ x.policy.max_operations = 2
        /\ Len(x.calls) = 1 /\ x.calls[1].caller = "try_handle"
        /\ x.calls[1].operations[1].operation_type.op = "Push"
        /\ x.calls[1].operations[2].operation_type.op = "Len"

\* The parameters of a policy state: all of it but counter and timer.
Parameters(p) ==
    [variant |-> p.variant, max_operations |-> p.max_operations,
     duration |-> p.duration]

\* What a step leaves alone: the id, the consumer and the policy of every
\* log, the policy state of a log the step is not a call on, and the
\* parameters of every policy.
FrameOfStep ==
    /\ \A i \in DOMAIN collections :
          /\ i \in DOMAIN collections'
          /\ collections'[i].id = collections[i].id
          /\ collections'[i].zond = collections[i].zond
          /\ collections'[i] = collections[i] =>
                heap'[collections[i].zond.policy] = heap[collections[i].zond.policy]
    /\ \A q \in DOMAIN heap :
          q \in DOMAIN heap' /\ Parameters(heap'[q]) = Parameters(heap[q])

\* What a call on log i (a record, or the flush of its teardown) changes:
\* no other log, no policy state but its own; a record that does not flush
\* appends its one event to the buffer and, under CountThreshold, adds one
\* to the counter, and changes nothing else; a flush delivers the buffer and
\* leaves it empty.
FrameOfCall(i) ==
    LET cell == collections[i].zond.policy
        made == SubSeq(handled', Len(handled) + 1, Len(handled'))
        recorded == Grown(collections[i].recorded, collections'[i].recorded)
    IN  /\ \A j \in DOMAIN collections \ {i} : collections'[j] = collections[j]
        /\ \A q \in DOMAIN heap \ {cell} : heap'[q] = heap[q]
        /\ zvecs' = zvecs /\ collected' = collected
        /\ SubSeq(handled', 1, Len(handled)) = handled
        /\ \A n \in DOMAIN made : made[n].id = collections[i].id
        /\ (recorded /\ made = <<>>) =>
              /\ Len(collections'[i].operations) = Len(collections[i].operations) + 1
              /\ SubSeq(collections'[i].operations, 1, Len(collections[i].operations))
                    = collections[i].operations
              /\ heap'[cell] =
                    IF heap[cell].variant = "OnCountOperations"
                    THEN [heap[cell] EXCEPT !.current_operations = @ + 1]
                    ELSE heap[cell]
        /\ (recorded /\ heap[cell].variant = "OnDropOnly") =>
              made = <<>> /\ heap'[cell] = heap[cell]
        /\ made # <<>> =>
              /\ collections'[i].operations = <<>>
              /\ Len(made) = 1
              /\ Len(made[1].operations)
                    = Len(collections[i].operations) + (IF recorded THEN 1 ELSE 0)

\* C22: record and flush leave the id, the consumer and the policy
\* parameters of every log as they were and touch only the buffer and the
\* policy state of the log they are called on.
C22_Frame ==
    [][/\ FrameOfStep
       /\ \A i \in DOMAIN collections :
             collections'[i] # collections[i] => FrameOfCall(i)]_vars

\* C22 witness: two logs, one built from the clone of the other's policy,
\* both under CountThreshold(2); one has recorded an event and counted it,
\* the other is as it was built.
C22_Witness ==
    \E i, j \in DOMAIN collections :
        /\ i # j /\ collections[i].live /\ collections[j].live
        /\ heap[collections[i].zond.policy].variant = "OnCountOperations"
        /\ heap[collections[i].zond.policy].max_operations = 2
        /\ Len(collections[i].operations) = 1
        /\ heap[collections[i].zond.policy].current_operations = 1
        /\ collections[j].operations = <<>>
        /\ heap[collections[j].zond.policy].current_operations = 0
        /\ collections[i].zond.policy # collections[j].zond.policy

====
